---- MODULE Spec2Model ----
(***************************************************************************)
(* Google Suggestion Excel Automation (src/Excel_file_automation.py).      *)
(*                                                                         *)
(* The workflow of main() as a state machine: open the browser, load the   *)
(* workbook, pick today's sheet, walk the rows from 2 to sheet.max_row,    *)
(* fetch suggestions for each non-empty keyword, write the longest and the *)
(* shortest into columns 2 and 3, save once, and quit the browser in the   *)
(* finally block.  find_longest_shortest is an operator, computed as the   *)
(* builtin max/min with key=len compute it (a left-to-right scan that      *)
(* replaces the candidate only on a strict improvement).                   *)
(*                                                                         *)
(* Python strings are TLA+ strings (len is Len); Python lists are          *)
(* sequences; None is a value outside every set of strings of the model.   *)
(* The operations that leave the process (webdriver.Chrome, load_workbook, *)
(* the driver calls inside the fetcher, workbook.save) succeed or raise,   *)
(* chosen nondeterministically; cell access on the loaded workbook and     *)
(* print do not raise.                                                     *)
(***************************************************************************)
EXTENDS Integers, Sequences, FiniteSets, TLC

\* ------------------------------------------------------------------ bounds
\* Largest sheet.max_row of a worksheet (row 1 is the header).
MaxRow == 3
\* Most span elements the suggestion panel holds in one fetch.
MaxSuggestions == 2
\* Longest list handed to find_longest_shortest on its own.
MaxLen == 3

\* ------------------------------------------------------- program constants
\* range(2, sheet.max_row + 1): the first row the loop visits.
FirstDataRow == 2
\* The three columns of a keyword row.
KeywordCol == 1
LongestCol == 2
ShortestCol == 3

\* ------------------------------------------------------------ value sets
\* Python's None.
None == "<None>"

\* Suggestion texts the panel shows in the workflow (of different lengths).
Strings == {"coffee shop", "coffee near me"}
\* Text of a span that renders nothing but whitespace.
Blank == " "
\* el.text of the spans under li.sbct.
Texts == Strings \cup {"", Blank}
\* Suggestion strings handed to find_longest_shortest on its own.
SelectorStrings == Strings \cup {"coffee beans", "ab", "cd", ""}

\* Keyword cells: a keyword, an empty string, or an absent value.
KeywordValues == {"coffee", "", None}
\* Columns 2 and 3 of a row before the run: empty, or a previous run's output.
OldOutputs == {<<None, None>>, <<"old longest", "old">>}

\* datetime.now().strftime("%A") at the time of the run.
TodayChoices == {"Monday", "Sunday"}
\* workbook.sheetnames of the file on disk.
SheetNames == {"Monday", "Tuesday"}

HeaderRow == <<"Keyword", "Longest", "Shortest">>

\* All sequences over S of length at most n.
SeqsUpTo(S, n) == UNION {[1..k -> S] : k \in 0..n}

\* Worksheets: a header row followed by up to MaxRow - 1 keyword rows.
DataRows == {<<k, o[1], o[2]>> : k \in KeywordValues, o \in OldOutputs}
Worksheets == {<<HeaderRow>> \o rows : rows \in SeqsUpTo(DataRows, MaxRow - 1)}

\* A workbook maps sheet names to worksheets; a worksheet is a sequence of
\* rows, a row a triple of cell values.
NoWorkbook == [n \in {} |-> <<HeaderRow>>]

VARIABLES
    pc,          \* position in main(): setup, load, sheet, loop, except, finally, done
    today,       \* the weekday name strftime("%A") yields
    file,        \* excel_file.xlsx on disk
    file0,       \* history: excel_file.xlsx as it was when the run started
    driver,      \* local `driver`: "unbound" or "bound"
    session,     \* the browser session: "none", "open", "closed"
    workbook,    \* local `workbook`, the in-memory document
    sheet,       \* local `sheet`: the name of the selected sheet, or None
    row,         \* the loop variable
    keyword,     \* local `keyword`
    suggestions, \* local `suggestions`
    longest,     \* local `longest`
    shortest,    \* local `shortest`
    error,       \* the exception raised inside the try block, "none" if none
    escaped,     \* the exception that leaves main(), "none" if none
    log,         \* the lines printed by the fetcher's handler, main's handler and the finally block
    visited,     \* history: the rows the loop has iterated over, in order
    got,         \* history: <<row, list>> for every return of the fetcher
    failedRows,  \* history: rows whose fetch raised inside the fetcher
    reads,       \* history: <<row, column>> of every cell read
    writes,      \* history: <<row, column>> of every cell written
    saveCalls,   \* history: calls of workbook.save
    saveSnap,    \* history: the in-memory workbook when save was called
    quitCalls    \* history: calls of driver.quit on a bound driver

vars == <<pc, today, file, file0, driver, session, workbook, sheet, row, keyword,
          suggestions, longest, shortest, error, escaped, log, visited,
          got, failedRows, reads, writes, saveCalls, saveSnap, quitCalls>>

locals == <<keyword, suggestions, longest, shortest>>
history == <<file0, visited, got, failedRows, reads, writes>>

\* ----------------------------------------------------- find_longest_shortest
\* max(suggestions, key=len): the first element of maximal length.
RECURSIVE MaxScan(_, _, _)
MaxScan(s, i, best) ==
    IF i > Len(s) THEN best
    ELSE MaxScan(s, i + 1, IF Len(s[i]) > Len(best) THEN s[i] ELSE best)

\* min(suggestions, key=len): the first element of minimal length.
RECURSIVE MinScan(_, _, _)
MinScan(s, i, best) ==
    IF i > Len(s) THEN best
    ELSE MinScan(s, i + 1, IF Len(s[i]) < Len(best) THEN s[i] ELSE best)

\* Scans that keep the last of several equally long elements.
RECURSIVE MaxScanLast(_, _, _)
MaxScanLast(s, i, best) ==
    IF i > Len(s) THEN best
    ELSE MaxScanLast(s, i + 1, IF Len(s[i]) >= Len(best) THEN s[i] ELSE best)

RECURSIVE MinScanLast(_, _, _)
MinScanLast(s, i, best) ==
    IF i > Len(s) THEN best
    ELSE MinScanLast(s, i + 1, IF Len(s[i]) =< Len(best) THEN s[i] ELSE best)

\* Variant: longest and shortest returned in the wrong order.
find_longest_shortest_swapped(s) ==
    IF s = <<>> THEN <<None, None>>
    ELSE <<MinScan(s, 2, s[1]), MaxScan(s, 2, s[1])>>

\* Variant: ties resolved in favour of the last element.
find_longest_shortest_last(s) ==
    IF s = <<>> THEN <<None, None>>
    ELSE <<MaxScanLast(s, 2, s[1]), MinScanLast(s, 2, s[1])>>

\* Variant: a list of one element is treated like an empty one.
find_longest_shortest_short(s) ==
    IF Len(s) < 2 THEN <<None, None>>
    ELSE <<MaxScan(s, 2, s[1]), MinScan(s, 2, s[1])>>

find_longest_shortest(s) ==
    IF s = <<>> THEN <<None, None>>
    ELSE <<MaxScan(s, 2, s[1]), MinScan(s, 2, s[1])>>

\* ------------------------------------------------------- get_google_suggestions
\* str.strip() on the texts of the model: only Blank has outer whitespace.
Strip(t) == IF t = Blank THEN "" ELSE t

RECURSIVE StrippedNonEmpty(_)
StrippedNonEmpty(texts) ==
    IF texts = <<>> THEN <<>>
    ELSE (IF Strip(Head(texts)) # "" THEN <<Strip(Head(texts))>> ELSE <<>>)
         \o StrippedNonEmpty(Tail(texts))

\* outcome "ok": every driver call returned and `texts` are the span texts;
\* outcome "error": a driver call or a wait raised inside the try.
get_google_suggestions(outcome, texts) ==
    IF outcome = "ok" THEN StrippedNonEmpty(texts) ELSE <<>>

\* ------------------------------------------------------------- cell access
Truthy(v) == v # None /\ v # ""
Cell(wb, s, r, c) == wb[s][r][c]
max_row(wb, s) == Len(wb[s])

\* Variant: the two outputs written into each other's column.
WriteResultsSwapped(wb, s, r, lng, sht) ==
    [wb EXCEPT ![s][r][LongestCol] = sht, ![s][r][ShortestCol] = lng]

WriteResults(wb, s, r, lng, sht) ==
    [wb EXCEPT ![s][r][LongestCol] = lng, ![s][r][ShortestCol] = sht]

\* -------------------------------------------------------------------- Init
Init ==
    /\ pc = "setup"
    /\ today \in TodayChoices
    /\ file \in {[n \in SheetNames |-> ws] : ws \in Worksheets}
    /\ file0 = file
    /\ driver = "unbound"
    /\ session = "none"
    /\ workbook = NoWorkbook
    /\ sheet = None
    /\ row = 0
    /\ keyword = None
    /\ suggestions = <<>>
    /\ longest = None
    /\ shortest = None
    /\ error = "none"
    /\ escaped = "none"
    /\ log = <<>>
    /\ visited = <<>>
    /\ got = {}
    /\ failedRows = {}
    /\ reads = {}
    /\ writes = {}
    /\ saveCalls = 0
    /\ saveSnap = NoWorkbook
    /\ quitCalls = 0

\* ---------------------------------------------------------- setup_browser
\* driver = setup_browser(): webdriver.Chrome returned a session.
SetupBrowserOk ==
    /\ pc = "setup"
    /\ driver' = "bound"
    /\ session' = "open"
    /\ pc' = "load"
    /\ UNCHANGED <<today, file, workbook, sheet, row, locals, error, escaped,
                   log, history, saveCalls, saveSnap, quitCalls>>

\* setup_browser() raised: `driver` is never assigned.
SetupBrowserFail ==
    /\ pc = "setup"
    /\ error' = "WebDriverException"
    /\ pc' = "except"
    /\ UNCHANGED <<today, file, driver, session, workbook, sheet, row, locals,
                   escaped, log, history, saveCalls, saveSnap, quitCalls>>

\* ---------------------------------------------------------- load_workbook
LoadWorkbookOk ==
    /\ pc = "load"
    /\ workbook' = file
    /\ pc' = "sheet"
    /\ UNCHANGED <<today, file, driver, session, sheet, row, locals, error,
                   escaped, log, history, saveCalls, saveSnap, quitCalls>>

\* The file is missing or unreadable.
LoadWorkbookFail ==
    /\ pc = "load"
    /\ error' = "load_workbook failed"
    /\ pc' = "except"
    /\ UNCHANGED <<today, file, driver, session, workbook, sheet, row, locals,
                   escaped, log, history, saveCalls, saveSnap, quitCalls>>

\* -------------------------------------------------------- get_today_sheet
\* Variant: a missing sheet falls back to some sheet of the workbook.
GetTodaySheetFallback ==
    /\ pc = "sheet"
    /\ today \notin DOMAIN workbook
    /\ sheet' = CHOOSE n \in DOMAIN workbook : TRUE
    /\ row' = FirstDataRow
    /\ pc' = "loop"
    /\ UNCHANGED <<today, file, driver, session, workbook, locals, error,
                   escaped, log, history, saveCalls, saveSnap, quitCalls>>

\* day_name in workbook.sheetnames: return workbook[day_name]; the for loop
\* starts at row 2.
GetTodaySheetOk ==
    /\ pc = "sheet"
    /\ today \in DOMAIN workbook
    /\ sheet' = today
    /\ row' = FirstDataRow
    /\ pc' = "loop"
    /\ UNCHANGED <<today, file, driver, session, workbook, locals, error,
                   escaped, log, history, saveCalls, saveSnap, quitCalls>>

\* day_name not in workbook.sheetnames: raise Exception("Sheet ... not found").
GetTodaySheetMissing ==
    /\ pc = "sheet"
    /\ today \notin DOMAIN workbook
    /\ error' = "Sheet not found"
    /\ pc' = "except"
    /\ UNCHANGED <<today, file, driver, session, workbook, sheet, row, locals,
                   escaped, log, history, saveCalls, saveSnap, quitCalls>>

\* ------------------------------------------------------------ the row loop
InLoop == pc = "loop" /\ row =< max_row(workbook, sheet)

\* Variant: the `continue` is missing and the outputs of an empty list are
\* written for a row without keyword.
SkipRowWriting ==
    /\ InLoop
    /\ ~Truthy(Cell(workbook, sheet, row, KeywordCol))
    /\ keyword' = Cell(workbook, sheet, row, KeywordCol)
    /\ workbook' = WriteResults(workbook, sheet, row, None, None)
    /\ reads' = reads \cup {<<row, KeywordCol>>}
    /\ writes' = writes \cup {<<row, LongestCol>>, <<row, ShortestCol>>}
    /\ visited' = Append(visited, row)
    /\ row' = row + 1
    /\ UNCHANGED <<pc, today, file, file0, driver, session, sheet,
                   suggestions, longest, shortest, error, escaped, log, got,
                   failedRows, saveCalls, saveSnap, quitCalls>>

\* if not keyword: continue
SkipRow ==
    /\ InLoop
    /\ ~Truthy(Cell(workbook, sheet, row, KeywordCol))
    /\ keyword' = Cell(workbook, sheet, row, KeywordCol)
    /\ reads' = reads \cup {<<row, KeywordCol>>}
    /\ visited' = Append(visited, row)
    /\ row' = row + 1
    /\ UNCHANGED <<pc, today, file, file0, driver, session, workbook, sheet,
                   suggestions, longest, shortest, error, escaped, log, got,
                   failedRows, writes, saveCalls, saveSnap, quitCalls>>

\* What one iteration with a keyword does to the locals, the sheet and the
\* history, given how the fetch ended.
RowEffect(outcome, texts) ==
    LET sug == get_google_suggestions(outcome, texts)
        ls  == find_longest_shortest(sug)
    IN  /\ keyword' = Cell(workbook, sheet, row, KeywordCol)
        /\ suggestions' = sug
        /\ longest' = ls[1]
        /\ shortest' = ls[2]
        /\ workbook' = WriteResults(workbook, sheet, row, ls[1], ls[2])
        /\ reads' = reads \cup {<<row, KeywordCol>>}
        /\ writes' = writes \cup {<<row, LongestCol>>, <<row, ShortestCol>>}
        /\ visited' = Append(visited, row)
        /\ got' = got \cup {<<row, sug>>}
        /\ failedRows' = IF outcome = "ok" THEN failedRows
                         ELSE failedRows \cup {row}
        /\ log' = IF outcome = "ok" THEN log
                  ELSE Append(log, "Error while fetching suggestions")
        /\ row' = row + 1

\* Variant: workbook.save is indented into the loop body.
ProcessRowSaving(outcome, texts) ==
    /\ InLoop
    /\ Truthy(Cell(workbook, sheet, row, KeywordCol))
    /\ session = "open"
    /\ RowEffect(outcome, texts)
    /\ saveCalls' = saveCalls + 1
    /\ saveSnap' = workbook'
    /\ file' = workbook'
    /\ UNCHANGED <<pc, today, file0, driver, session, sheet, error, escaped,
                   quitCalls>>

\* One iteration for a row with a keyword: fetch, select, write both cells.
ProcessRow(outcome, texts) ==
    /\ InLoop
    /\ Truthy(Cell(workbook, sheet, row, KeywordCol))
    /\ session = "open"
    /\ RowEffect(outcome, texts)
    /\ UNCHANGED <<pc, today, file, file0, driver, session, sheet, error,
                   escaped, saveCalls, saveSnap, quitCalls>>

\* The fetcher returned the texts of the suggestion spans.
FetchOkRow ==
    \E texts \in SeqsUpTo(Texts, MaxSuggestions) :
        /\ pc = "loop"
        /\ ProcessRow("ok", texts)

\* Variant: the exception of a failed fetch reaches main's handler.
FetchFailedRowEscapes ==
    /\ InLoop
    /\ Truthy(Cell(workbook, sheet, row, KeywordCol))
    /\ keyword' = Cell(workbook, sheet, row, KeywordCol)
    /\ reads' = reads \cup {<<row, KeywordCol>>}
    /\ visited' = Append(visited, row)
    /\ failedRows' = failedRows \cup {row}
    /\ error' = "TimeoutException"
    /\ pc' = "except"
    /\ UNCHANGED <<today, file, file0, driver, session, workbook, sheet, row,
                   suggestions, longest, shortest, escaped, log, got, writes,
                   saveCalls, saveSnap, quitCalls>>

\* A navigation error, a wait timeout or a missing element inside the
\* fetcher's try: caught there, [] returned.
FetchFailedRow ==
    /\ pc = "loop"
    /\ ProcessRow("error", <<>>)

\* ----------------------------------------------------------- workbook.save
LoopDone == pc = "loop" /\ row > max_row(workbook, sheet)

SaveOk ==
    /\ LoopDone
    /\ saveCalls' = saveCalls + 1
    /\ saveSnap' = workbook
    /\ file' = workbook
    /\ pc' = "finally"
    /\ UNCHANGED <<today, driver, session, workbook, sheet, row, locals, error,
                   escaped, log, history, quitCalls>>

\* workbook.save raised before the file was replaced (the file cannot be
\* opened for writing).
SaveFail ==
    /\ LoopDone
    /\ saveCalls' = saveCalls + 1
    /\ saveSnap' = workbook
    /\ error' = "save failed"
    /\ pc' = "except"
    /\ UNCHANGED <<today, file, driver, session, workbook, sheet, row, locals,
                   escaped, log, history, quitCalls>>

\* ------------------------------------------------------- except / finally
\* Variant: the cleanup is not in a finally block, so the handler ends main.
ExceptSkipsCleanup ==
    /\ pc = "except"
    /\ log' = Append(log, "Script failed")
    /\ pc' = "done"
    /\ UNCHANGED <<today, file, driver, session, workbook, sheet, row, locals,
                   error, escaped, history, saveCalls, saveSnap, quitCalls>>

\* except Exception as error: print("Script failed:", error)
Except ==
    /\ pc = "except"
    /\ log' = Append(log, "Script failed")
    /\ pc' = "finally"
    /\ UNCHANGED <<today, file, driver, session, workbook, sheet, row, locals,
                   error, escaped, history, saveCalls, saveSnap, quitCalls>>

\* finally: driver.quit(); print(...) with `driver` bound.
FinallyQuit ==
    /\ pc = "finally"
    /\ driver = "bound"
    /\ session' = "closed"
    /\ quitCalls' = quitCalls + 1
    /\ log' = Append(log, "Browser closed. Script completed successfully.")
    /\ pc' = "done"
    /\ UNCHANGED <<today, file, driver, workbook, sheet, row, locals, error,
                   escaped, history, saveCalls, saveSnap>>

\* finally: driver.quit() with `driver` never assigned: the name lookup
\* raises UnboundLocalError, which leaves main(); the print is not reached.
FinallyUnbound ==
    /\ pc = "finally"
    /\ driver = "unbound"
    /\ escaped' = "UnboundLocalError"
    /\ pc' = "done"
    /\ UNCHANGED <<today, file, driver, session, workbook, sheet, row, locals,
                   error, log, history, saveCalls, saveSnap, quitCalls>>

Next ==
    \/ SetupBrowserOk
    \/ SetupBrowserFail
    \/ LoadWorkbookOk
    \/ LoadWorkbookFail
    \/ GetTodaySheetOk
    \/ GetTodaySheetMissing
    \/ SkipRow
    \/ FetchOkRow
    \/ FetchFailedRow
    \/ SaveOk
    \/ SaveFail
    \/ Except
    \/ FinallyQuit
    \/ FinallyUnbound

Spec == Init /\ [][Next]_vars

\* ------------------------------------- find_longest_shortest on its own
\* The selector applied to every list over SelectorStrings up to MaxLen.
InitSelector ==
    /\ pc = "selector"
    /\ suggestions \in SeqsUpTo(SelectorStrings, MaxLen)
    /\ today = "Monday"
    /\ file = [n \in SheetNames |-> <<HeaderRow>>]
    /\ file0 = file
    /\ driver = "unbound"
    /\ session = "none"
    /\ workbook = NoWorkbook
    /\ sheet = None
    /\ row = 0
    /\ keyword = None
    /\ longest = None
    /\ shortest = None
    /\ error = "none"
    /\ escaped = "none"
    /\ log = <<>>
    /\ visited = <<>>
    /\ got = {}
    /\ failedRows = {}
    /\ reads = {}
    /\ writes = {}
    /\ saveCalls = 0
    /\ saveSnap = NoWorkbook
    /\ quitCalls = 0

\* longest, shortest = find_longest_shortest(suggestions)
CallFindLongestShortest ==
    /\ pc = "selector"
    /\ longest' = find_longest_shortest(suggestions)[1]
    /\ shortest' = find_longest_shortest(suggestions)[2]
    /\ pc' = "selected"
    /\ UNCHANGED <<today, file, driver, session, workbook, sheet, row, keyword,
                   suggestions, error, escaped, log, history, saveCalls,
                   saveSnap, quitCalls>>

NextSelector == CallFindLongestShortest

SpecSelector == InitSelector /\ [][NextSelector]_vars

\* ================================================================ claims
\* Helpers of the claims.
DataRowsOf(wb, s) == FirstDataRow..max_row(wb, s)
SessionOpened == session # "none"
InitSucceeded == sheet # None
RunEnded == pc = "done"
Elements(s) == {s[i] : i \in 1..Len(s)}
\* v is an element of s and no element of s is longer (shorter) than v.
IsALongestOf(v, s) == v \in Elements(s) /\ \A e \in Elements(s) : Len(e) =< Len(v)
IsAShortestOf(v, s) == v \in Elements(s) /\ \A e \in Elements(s) : Len(e) >= Len(v)
\* The lists the fetcher returned for row r.
GotFor(r) == {g[2] : g \in {h \in got : h[1] = r}}

\* C1: on every path of main on which the browser session was opened, the
\* session is closed exactly once, and only when nothing of the run is left
\* to do: driver.quit is never called twice, the session is closed exactly
\* when it was called, a finished run that opened the session has closed it,
\* and a closed session means main has ended (every row step and the save
\* attempt lie before it).
C1_SessionClosedExactlyOnce ==
    /\ quitCalls =< 1
    /\ (session = "closed") <=> (quitCalls = 1)
    /\ (RunEnded /\ SessionOpened) => (session = "closed" /\ quitCalls = 1)
    /\ (quitCalls >= 1) => RunEnded

\* A run that wrote rows, failed in workbook.save and still closed the session.
C1_Witness ==
    /\ RunEnded
    /\ error = "save failed"
    /\ writes # {}
    /\ session = "closed"
    /\ quitCalls = 1

\* C2: when setup_browser raises, the handler logs the error, the cleanup
\* does not touch a session that was never opened, and no exception leaves
\* main.
C2_LaunchFailureEndsNormally ==
    (RunEnded /\ error = "WebDriverException") =>
        /\ \E i \in 1..Len(log) : log[i] = "Script failed"
        /\ quitCalls = 0
        /\ session = "none"
        /\ escaped = "none"

\* C3: a failed fetch stays inside the fetcher: it returns [] and raises
\* nothing in main, the row gets None in columns 2 and 3 whatever was there,
\* the loop goes on to the later rows, and once main has ended every row was
\* visited and workbook.save was called (a save that did not itself fail
\* left the None values in the file).
C3_FetchFailureIsLocal ==
    \A r \in failedRows :
        /\ GotFor(r) = {<<>>}
        /\ error \in {"none", "save failed"}
        /\ pc \in {"loop", "finally", "done"} \/ (pc = "except" /\ saveCalls = 1)
        /\ row > r
        /\ Cell(workbook, sheet, r, LongestCol) = None
        /\ Cell(workbook, sheet, r, ShortestCol) = None
        /\ {<<r, LongestCol>>, <<r, ShortestCol>>} \subseteq writes
        /\ RunEnded =>
            /\ {visited[i] : i \in 1..Len(visited)} = DataRowsOf(workbook, sheet)
            /\ saveCalls = 1
            /\ saveSnap = workbook
            /\ (error = "none") =>
                  /\ Cell(file, sheet, r, LongestCol) = None
                  /\ Cell(file, sheet, r, ShortestCol) = None

\* A finished, saved run in which a fetch failed on a row that held earlier
\* outputs and a later row got the outputs of a successful fetch.
C3_Witness ==
    /\ RunEnded
    /\ error = "none"
    /\ saveCalls = 1
    /\ \E r \in failedRows :
          /\ Cell(file0, sheet, r, LongestCol) = "old longest"
          /\ Cell(file, sheet, r, LongestCol) = None
          /\ \E r2 \in DataRowsOf(workbook, sheet) :
                /\ r2 > r
                /\ r2 \notin failedRows
                /\ Cell(file, sheet, r2, LongestCol) \in Strings

\* C4: if the document has no sheet named for today's weekday, no row is
\* ever read, fetched or written, workbook.save is never called, the file
\* stays as it was, the run ends with the sheet error, and a session that
\* was opened is closed at the end.
C4_MissingSheetAborts ==
    (today \notin DOMAIN file0) =>
        /\ pc # "loop"
        /\ sheet = None
        /\ visited = <<>>
        /\ reads = {}
        /\ writes = {}
        /\ got = {}
        /\ saveCalls = 0
        /\ file = file0
        /\ (workbook # NoWorkbook) => (workbook = file0)
        /\ (RunEnded /\ workbook # NoWorkbook) => error = "Sheet not found"
        /\ (RunEnded /\ SessionOpened) => session = "closed"

\* A finished run that failed in get_today_sheet with the browser closed.
C4_Witness ==
    /\ RunEnded
    /\ error = "Sheet not found"
    /\ today \notin DOMAIN file0
    /\ session = "closed"
    /\ Len(file0[CHOOSE n \in DOMAIN file0 : TRUE]) > 1

\* C5: after a run in which Init and Persist succeeded, every row from 2 to
\* max_row with a non-empty keyword has, in the saved file, a longest
\* element of the list fetched for it in column 2 and a shortest one in
\* column 3, both None when that list is empty.
C5_OutputsOfEveryKeywordRow ==
    (RunEnded /\ error = "none") =>
        \A r \in DataRowsOf(file0, sheet) :
            Truthy(Cell(file0, sheet, r, KeywordCol)) =>
                \E sug \in GotFor(r) :
                    /\ GotFor(r) = {sug}
                    /\ (sug = <<>>) =>
                          /\ Cell(file, sheet, r, LongestCol) = None
                          /\ Cell(file, sheet, r, ShortestCol) = None
                    /\ (sug # <<>>) =>
                          /\ IsALongestOf(Cell(file, sheet, r, LongestCol), sug)
                          /\ IsAShortestOf(Cell(file, sheet, r, ShortestCol), sug)

\* A saved run with a row without keyword, followed by a row whose fetch
\* returned suggestions of different lengths.
C5_Witness ==
    /\ RunEnded
    /\ error = "none"
    /\ \E r, r2 \in DataRowsOf(file0, sheet) :
          /\ r < r2
          /\ ~Truthy(Cell(file0, sheet, r, KeywordCol))
          /\ Cell(file, sheet, r2, LongestCol) = "coffee near me"
          /\ Cell(file, sheet, r2, ShortestCol) = "coffee shop"

\* C6: workbook.save is called at most once; when it has been called every
\* row of the sheet has been visited and no cell was written afterwards; a
\* run that completed the iteration has called it exactly once; a run whose
\* Init failed never calls it and leaves the file alone.
C6_SavedOnceAfterLastRow ==
    /\ saveCalls =< 1
    /\ (saveCalls = 1) =>
          /\ pc \in {"except", "finally", "done"}
          /\ row = max_row(workbook, sheet) + 1
          /\ {visited[i] : i \in 1..Len(visited)} = DataRowsOf(workbook, sheet)
          /\ saveSnap = workbook
    /\ (saveCalls = 0) => file = file0
    /\ (RunEnded /\ InitSucceeded) => saveCalls = 1
    /\ (~InitSucceeded) => saveCalls = 0

\* A finished run that wrote two rows and saved once.
C6_Witness ==
    /\ RunEnded
    /\ saveCalls = 1
    /\ Cardinality(writes) >= 4
    /\ file # file0

\* C7: every written cell is column 2 or 3 of a row >= 2 with a non-empty
\* keyword; every read cell is column 1 of a row >= 2; the fetcher is called
\* only for rows with a non-empty keyword; the header row, column 1 and the
\* rows without keyword stay as they were; and a row without keyword does
\* not stop the loop (a run that reached the loop and ended visited every
\* row once, in order).
C7_OnlyOutputCellsOfKeywordRows ==
    InitSucceeded =>
        /\ \A w \in writes :
              /\ w[1] >= FirstDataRow
              /\ w[2] \in {LongestCol, ShortestCol}
              /\ Truthy(Cell(file0, sheet, w[1], KeywordCol))
        /\ \A c \in reads : c[1] >= FirstDataRow /\ c[2] = KeywordCol
        /\ \A g \in got : Truthy(Cell(file0, sheet, g[1], KeywordCol))
        /\ \A f \in {file, workbook} :
              /\ DOMAIN f = DOMAIN file0
              /\ \A n \in DOMAIN f : n # sheet => f[n] = file0[n]
              /\ Len(f[sheet]) = Len(file0[sheet])
              /\ f[sheet][1] = file0[sheet][1]
              /\ \A r \in DataRowsOf(file0, sheet) :
                    /\ f[sheet][r][KeywordCol] = file0[sheet][r][KeywordCol]
                    /\ ~Truthy(file0[sheet][r][KeywordCol]) =>
                          f[sheet][r] = file0[sheet][r]
        /\ visited = [i \in 1..(row - FirstDataRow) |-> i + FirstDataRow - 1]
        /\ RunEnded => row = max_row(file0, sheet) + 1

\* A finished run in which a row without keyword that held old outputs was
\* skipped and the row after it was written.
C7_Witness ==
    /\ RunEnded
    /\ InitSucceeded
    /\ \E r \in DataRowsOf(file0, sheet) :
          /\ ~Truthy(Cell(file0, sheet, r, KeywordCol))
          /\ Cell(file0, sheet, r, LongestCol) = "old longest"
          /\ Cell(file, sheet, r, LongestCol) = "old longest"
          /\ <<r + 1, LongestCol>> \in writes

\* C8: for a non-empty list, the returned longest is an element of the list
\* at least as long as every element, and the returned shortest is an
\* element of the list at most as long as every element.
C8_ExtremesAreElements ==
    (pc = "selected" /\ suggestions # <<>>) =>
        /\ IsALongestOf(longest, suggestions)
        /\ IsAShortestOf(shortest, suggestions)

\* A list of three suggestions whose longest and shortest differ in length.
C8_Witness ==
    /\ pc = "selected"
    /\ Len(suggestions) = 3
    /\ Len(longest) > Len(shortest)

\* C9: among several elements of maximal (minimal) length the first in list
\* order is returned: the returned longest (shortest) stands at an index
\* before which every element is strictly shorter (strictly longer).
C9_FirstWinsTies ==
    (pc = "selected" /\ suggestions # <<>>) =>
        /\ \E i \in 1..Len(suggestions) :
              /\ suggestions[i] = longest
              /\ \A j \in 1..Len(suggestions) : Len(suggestions[j]) =< Len(longest)
              /\ \A j \in 1..(i - 1) : Len(suggestions[j]) < Len(longest)
        /\ \E i \in 1..Len(suggestions) :
              /\ suggestions[i] = shortest
              /\ \A j \in 1..Len(suggestions) : Len(suggestions[j]) >= Len(shortest)
              /\ \A j \in 1..(i - 1) : Len(suggestions[j]) > Len(shortest)

\* Two different suggestions share the maximal length and two different
\* ones the minimal length; the earlier one of each pair was returned.
C9_Witness ==
    /\ pc = "selected"
    /\ \E i, j \in 1..Len(suggestions) :
          /\ i < j
          /\ suggestions[i] # suggestions[j]
          /\ Len(suggestions[i]) = Len(longest)
          /\ Len(suggestions[j]) = Len(longest)
          /\ longest = suggestions[i]
    /\ \E i, j \in 1..Len(suggestions) :
          /\ i < j
          /\ suggestions[i] # suggestions[j]
          /\ Len(suggestions[i]) = Len(shortest)
          /\ Len(suggestions[j]) = Len(shortest)
          /\ shortest = suggestions[i]

\* C10: for the empty list both results are None, and a result is None only
\* for the empty list.
C10_NoneIffEmpty ==
    (pc = "selected") =>
        /\ (suggestions = <<>>) => (longest = None /\ shortest = None)
        /\ (longest = None \/ shortest = None) => suggestions = <<>>

\* The selector has returned for the empty list.
C10_Witness ==
    /\ pc = "selected"
    /\ suggestions = <<>>
    /\ longest = None
    /\ shortest = None

====
